---- MODULE Spec2Model ----
(***************************************************************************)
(* Model of the matcher + ranker pipeline of dac-divide-and-conquer:       *)
(*   disease_codification/model/ranker.py   (Ranker)                       *)
(*   disease_codification/model/matcher.py  (Matcher)                      *)
(*   dac_divide_and_conquer/evaluation.py   (eval_mean, eval_ensemble)     *)
(*                                                                         *)
(* Scores are integers in tenths (10 stands for 1.0); a quotient is kept   *)
(* as the pair <<numerator, denominator>> and compared by cross            *)
(* multiplication.  The fitted models of sklearn / xgboost / flair are     *)
(* external: what they return is an input of the action that calls them.  *)
(***************************************************************************)
EXTENDS Integers, Sequences, FiniteSets, TLC

\* ------------------------------------------------------------------ bounds
NumClusters == 2
MaxTexts == 1
MaxDevTexts == 2
MaxPairs == 3

\* ------------------------------------------------------------- ranker state
VARIABLES
    cluster_classifier,        \* Ranker.cluster_classifier
    cluster_label_binarizer,   \* Ranker.cluster_label_binarizer
    cluster_tfidf,             \* Ranker.cluster_tfidf
    transformer_for_embedding, \* Ranker.transformer_for_embedding (TRUE: an encoder object)
    disk,                      \* models_path/indexer/ranker/*.pickle
    call,                      \* the Ranker call of this run and what it did
    tcall,                     \* the last train call and what each cluster was fit on
    default_dicts,             \* the three {} default arguments of Ranker.__init__
    aliased,                   \* the Ranker in use holds the default dictionaries
    other                      \* a second Ranker of the process and how it was constructed

\* ------------------------------------------------------------ matcher state
VARIABLES
    mcall                      \* the Matcher call of this run and what it did

\* --------------------------------------------------------- evaluation state
VARIABLES
    ecall                      \* the evaluation.py call of this run and what it did

rankerVars == <<cluster_classifier, cluster_label_binarizer, cluster_tfidf,
                transformer_for_embedding, disk, call, tcall, default_dicts, aliased, other>>

vars == <<rankerVars, mcall, ecall>>

\* self.clusters: the ordered clusters of load_mappings
clusters == [i \in 1..NumClusters |-> i]

ClusterSet == 1..NumClusters

\* MultiLabelBinarizer.classes_ of a cluster: its own labels and the catch-all
\* label, sorted ("<incorrect-matcher>" sorts after the codes).
Classes(cluster) == << <<"label", cluster>>, <<"incorrect-matcher", 0>> >>

\* A cluster entry of a dictionary that was never set.
Unset == "unset"

NoCall == [op |-> "none"]

\* dict.get(cluster): None for a missing key as for a stored None
GetClassifier(cc, cluster) == IF cc[cluster] = Unset THEN "None" ELSE cc[cluster]

\* ------------------------------------------------------------ _get_embeddings
\* The encoder handle the call leaves on the Ranker.
EncoderAfter(selfEncoder, transformer_arg) == (~selfEncoder) /\ transformer_arg

\* The composition of the feature matrix returned.
FeaturesOf(selfEncoder, transformer_arg) ==
    IF EncoderAfter(selfEncoder, transformer_arg) THEN "dense" ELSE "sparse"

\* ----------------------------------------------------------- _read_sentences
\* split_types_train of train, at its default
SplitTypesTrain == <<"train", "dev">>

\* The corpora of a cluster: the splits of ranker_<cluster> that hold a text and
\* whether incorrect-matcher/incorrect_<cluster> holds a (train) text.
CorpusOf(hasSentences, hard_negatives) ==
    [splits |-> IF hasSentences THEN {"train"} ELSE {},
     incorrect |-> hasSentences /\ hard_negatives]

\* _read_sentences, the texts named by where they come from: the texts of the
\* requested splits of the MultiCorpus, the incorrect-matcher corpus being
\* part of its train split when asked for and present.  The augmentation
\* corpora are the same in every call and left out; the subset slice keeps
\* every sentence (it is taken only when there are fewer than subset).
ReadSentences(corpus, split_types, use_incorrect_matcher_predictions) ==
    {sp \in {split_types[k] : k \in DOMAIN split_types} : sp \in corpus.splits}
       \cup (IF /\ use_incorrect_matcher_predictions
                /\ corpus.incorrect
                /\ "train" \in {split_types[k] : k \in DOMAIN split_types}
             THEN {"incorrect-matcher"} ELSE {})

\* _set_tfidf: the vectorizer is fit on the train and dev texts of the cluster
TfidfTexts(corpus) == ReadSentences(corpus, <<"train", "dev">>, FALSE)

\* -------------------------------------------------------------------- train
\* What train keeps of a cluster without sentences.
NoFit == [classifier |-> {}, tfidf |-> {}, features |-> "none"]

\* One iteration of the loop of train over the clusters.
TrainCluster(st, cluster, corpus, use_incorrect_matcher_predictions, transformer_arg) ==
    LET sentences == ReadSentences(corpus, SplitTypesTrain, use_incorrect_matcher_predictions)
    IN IF sentences = {}
       THEN [st EXCEPT !.mlb[cluster] = "fit",
                       !.tfidf[cluster] = "None",
                       !.clf[cluster] = "None",
                       !.fits[cluster] = NoFit]
       ELSE [st EXCEPT !.mlb[cluster] = "fit",
                       !.tfidf[cluster] = "fit",
                       !.encoder = EncoderAfter(st.encoder, transformer_arg),
                       !.clf[cluster] = FeaturesOf(st.encoder, transformer_arg),
                       !.fits[cluster] = [classifier |-> sentences,
                                          tfidf |-> TfidfTexts(corpus),
                                          features |-> FeaturesOf(st.encoder, transformer_arg)]]

RECURSIVE TrainLoop(_, _, _, _, _)
TrainLoop(st, i, corpora, use_incorrect_matcher_predictions, transformer_arg) ==
    IF i > NumClusters THEN st
    ELSE TrainLoop(TrainCluster(st, clusters[i], corpora[clusters[i]],
                                use_incorrect_matcher_predictions, transformer_arg),
                   i + 1, corpora, use_incorrect_matcher_predictions, transformer_arg)

\* save(): the three pickles of every cluster
Saved(st) == [saved |-> TRUE, clf |-> st.clf, tfidf |-> st.tfidf, mlb |-> st.mlb]

\* The dictionaries of a Ranker, as one record.
Dicts(cc, clb, ct) ==
    [cluster_classifier |-> cc, cluster_label_binarizer |-> clb, cluster_tfidf |-> ct]

TrainCall(corpora, use_incorrect_matcher_predictions, transformer_arg) ==
    /\ LET st0 == [mlb |-> cluster_label_binarizer, tfidf |-> cluster_tfidf,
                   clf |-> cluster_classifier, encoder |-> transformer_for_embedding,
                   fits |-> [c \in ClusterSet |-> NoFit]]
           st == TrainLoop(st0, 1, corpora, use_incorrect_matcher_predictions, transformer_arg)
       IN /\ cluster_label_binarizer' = st.mlb
          /\ cluster_tfidf' = st.tfidf
          /\ cluster_classifier' = st.clf
          /\ transformer_for_embedding' = st.encoder
          /\ disk' = Saved(st)
          /\ tcall' = [op |-> "train",
                       transformer_for_embedding |-> transformer_arg,
                       fits |-> st.fits]
          \* the assignments go to the dictionary objects the Ranker holds
          /\ default_dicts' = IF aliased THEN Dicts(st.clf, st.mlb, st.tfidf) ELSE default_dicts
    /\ UNCHANGED <<call, aliased, other>>

\* train, for every corpus (which clusters have training sentences, and whether
\* the Matcher's mispredictions were written for them) and the ways of calling
\* it (with or without transformer_for_embedding and hard negatives).  A run
\* trains once.
Train ==
    /\ call = NoCall
    /\ tcall = NoCall
    /\ \E hasSentences \in [ClusterSet -> BOOLEAN], hard_negatives \in BOOLEAN,
          use_incorrect_matcher_predictions \in BOOLEAN, transformer_arg \in BOOLEAN :
          TrainCall([c \in ClusterSet |-> CorpusOf(hasSentences[c], hard_negatives)],
                    use_incorrect_matcher_predictions, transformer_arg)
    /\ UNCHANGED <<mcall, ecall>>

\* --------------------------------------------------------------------- load
\* The classifier and vectorizer load of one cluster: a missing file of either
\* leaves both None.
LoadPair(d, cluster, missing) ==
    IF cluster \in missing THEN [clf |-> "None", tfidf |-> "None"]
    ELSE [clf |-> d.clf[cluster], tfidf |-> d.tfidf[cluster]]

LoadCall(missing) ==
    /\ disk.saved
    /\ cluster_label_binarizer' = disk.mlb
    /\ cluster_classifier' = [c \in ClusterSet |-> LoadPair(disk, c, missing).clf]
    /\ cluster_tfidf' = [c \in ClusterSet |-> LoadPair(disk, c, missing).tfidf]
    /\ transformer_for_embedding' = FALSE
    /\ aliased' = FALSE
    /\ UNCHANGED <<disk, call, tcall, default_dicts, other>>

\* load, for every set of clusters whose classifier or vectorizer file is
\* missing: the Ranker it returns holds three dictionaries of its own.
Load ==
    /\ call = NoCall
    /\ \E missing \in SUBSET ClusterSet : LoadCall(missing)
    /\ UNCHANGED <<mcall, ecall>>

\* ----------------------------------------------------------------- __init__
\* The dictionaries a Ranker constructed the given way holds: the default
\* arguments are the same three objects in every call that omits them.
DictsOf(how) ==
    IF how = "defaults" THEN default_dicts
    ELSE Dicts([c \in ClusterSet |-> Unset], [c \in ClusterSet |-> Unset], [c \in ClusterSet |-> Unset])

\* A second Ranker is constructed in the process, without the dictionary
\* arguments or with new dictionaries passed for them.
NewRanker ==
    /\ other = "none"
    /\ other' \in {"defaults", "passed"}
    /\ UNCHANGED <<cluster_classifier, cluster_label_binarizer, cluster_tfidf,
                   transformer_for_embedding, disk, call, tcall, default_dicts, aliased>>
    /\ UNCHANGED <<mcall, ecall>>

\* ------------------------------------------------------------------ predict
\* What predict_proba can return for one label of one sentence (tenths).
ProbaValues == {2, 9}

\* Sentence.add_label(channel, label, score): appends to the channel.  The
\* cluster of the loop iteration is kept beside the label.
AddLabel(sentence, channel, cluster, label, score) ==
    [sentence EXCEPT ![channel] = Append(@, [cluster |-> cluster, label |-> label, score |-> score])]

\* for label in classes: sentence.add_label("ranker_proba", label, 0.0)
RECURSIVE AddZeroLabels(_, _, _)
AddZeroLabels(sentence, cluster, j) ==
    IF j > Len(Classes(cluster)) THEN sentence
    ELSE AddZeroLabels(AddLabel(sentence, "ranker_proba", cluster, Classes(cluster)[j], 0),
                       cluster, j + 1)

\* for i, label in enumerate(classes): add_label("ranker_proba", label, prediction[i])
RECURSIVE AddProbaLabels(_, _, _, _)
AddProbaLabels(sentence, cluster, prediction, j) ==
    IF j > Len(Classes(cluster)) THEN sentence
    ELSE AddProbaLabels(AddLabel(sentence, "ranker_proba", cluster, Classes(cluster)[j], prediction[j]),
                        cluster, prediction, j + 1)

\* for i, pred in enumerate(prediction): if pred: add_label("ranker", classes[i], 1.0)
RECURSIVE AddHardLabels(_, _, _, _)
AddHardLabels(sentence, cluster, prediction, j) ==
    IF j > Len(Classes(cluster)) THEN sentence
    ELSE AddHardLabels(IF prediction[j] # 0
                       THEN AddLabel(sentence, "ranker", cluster, Classes(cluster)[j], 10)
                       ELSE sentence,
                       cluster, prediction, j + 1)

\* A predict without the branch for a missing classifier: None has no predict_proba.
PredictNullRaises(st, cluster) ==
    [st EXCEPT !.raised = "AttributeError"]

\* The branch of a cluster without a classifier.
PredictNull(st, cluster) ==
    [st EXCEPT !.sentences = [i \in DOMAIN st.sentences |-> AddZeroLabels(st.sentences[i], cluster, 1)]]

\* The branches of a cluster with a classifier; predictions[i][cluster] is the
\* row the classifier returns for sentence i.
PredictTrained(st, cluster, return_probabilities, predictions) ==
    [st EXCEPT !.encoder = EncoderAfter(st.encoder, FALSE),
               !.features[cluster] = FeaturesOf(st.encoder, FALSE),
               !.sentences = [i \in DOMAIN st.sentences |->
                    IF return_probabilities
                    THEN AddProbaLabels(st.sentences[i], cluster, predictions[i][cluster], 1)
                    ELSE AddHardLabels(st.sentences[i], cluster, predictions[i][cluster], 1)]]

\* One iteration of the loop of predict over the clusters.
PredictCluster(st, cluster, return_probabilities, predictions) ==
    IF cluster_label_binarizer[cluster] = Unset
    THEN [st EXCEPT !.raised = "KeyError"]
    ELSE LET done == [st EXCEPT !.processed = Append(@, cluster)]
         IN IF GetClassifier(cluster_classifier, cluster) = "None"
            THEN PredictNull(done, cluster)
            ELSE PredictTrained(done, cluster, return_probabilities, predictions)

RECURSIVE PredictLoop(_, _, _, _)
PredictLoop(st, i, return_probabilities, predictions) ==
    IF i > NumClusters \/ st.raised # "no" THEN st
    ELSE PredictLoop(PredictCluster(st, clusters[i], return_probabilities, predictions),
                     i + 1, return_probabilities, predictions)

\* The clusters whose classifier predict calls.
ClustersWithClassifier ==
    {c \in ClusterSet : GetClassifier(cluster_classifier, c) # "None"}

\* A label a sentence carries before the call, from an earlier prediction.
EarlierLabel == [cluster |-> 0, label |-> <<"earlier", 0>>, score |-> 5]

\* The sentences handed to predict: some already carry a probability label.
InputSentences(n, labelled) ==
    [i \in 1..n |-> [ranker |-> <<>>,
                     ranker_proba |-> IF labelled THEN <<EarlierLabel>> ELSE <<>>]]

PredictCall(n, labelled, return_probabilities, predictions) ==
    /\ LET st0 == [sentences |-> InputSentences(n, labelled),
                   encoder |-> transformer_for_embedding,
                   features |-> [c \in ClusterSet |-> "none"],
                   processed |-> <<>>,
                   raised |-> "no"]
           st == PredictLoop(st0, 1, return_probabilities, predictions)
       IN /\ transformer_for_embedding' = st.encoder
          /\ call' = [op |-> "predict",
                      return_probabilities |-> return_probabilities,
                      before |-> st0.sentences,
                      sentences |-> st.sentences,
                      features |-> st.features,
                      processed |-> st.processed,
                      raised |-> st.raised]
    /\ UNCHANGED <<cluster_classifier, cluster_label_binarizer, cluster_tfidf, disk,
                   tcall, default_dicts, aliased, other>>

\* predict, in both modes, for every output of the classifiers.
Predict ==
    /\ call = NoCall
    /\ \E n \in 1..MaxTexts, labelled \in BOOLEAN, return_probabilities \in BOOLEAN :
          \E predictions \in [1..n -> [ClustersWithClassifier -> [1..2 ->
                                  IF return_probabilities THEN ProbaValues ELSE {0, 1}]]] :
             PredictCall(n, labelled, return_probabilities, predictions)
    /\ UNCHANGED <<mcall, ecall>>

\* ------------------------------------------------------------ eval_weighted
\* Numbers of evaluation sentences a cluster can have in a split.
Supports == {0, 1, 3}

\* Values of a cluster's mean average precision or micro F1 (tenths).
Scores == {0, 10}

\* A cluster's evaluation sentences in a split and the score sklearn computes
\* from their gold labels and the predictions for them.
Cells ==
    {[n |-> 0, score |-> 0]} \cup {[n |-> k, score |-> v] : k \in Supports \ {0}, v \in Scores}

SplitTypeLists == {<<"test">>, <<"dev", "test">>}

MetricLists == {<<"map">>, <<"summary">>, <<"map", "summary">>}

Range(seq) == {seq[k] : k \in DOMAIN seq}

\* The local variable embeddings before its first assignment.
Unbound == [bound |-> FALSE, rows |-> 0]

\* metric_clusters = {}
EmptyMetricClusters == [c \in ClusterSet |-> [has |-> FALSE, score |-> 0, support |-> 0]]

\* The body of the loop over the clusters, the same for both metrics: skip a
\* cluster without sentences, compute embeddings only with a classifier, and
\* store (score, embeddings.shape[0]).
EvalCluster(st, cluster, cell) ==
    IF cell.n = 0 THEN st
    ELSE IF cluster_label_binarizer[cluster] = Unset THEN [st EXCEPT !.raised = "KeyError"]
    ELSE LET st1 == IF GetClassifier(cluster_classifier, cluster) = "None"
                    THEN st
                    ELSE [st EXCEPT !.embeddings = [bound |-> TRUE, rows |-> cell.n],
                                    !.encoder = EncoderAfter(st.encoder, FALSE)]
         IN IF ~st1.embeddings.bound
            THEN [st1 EXCEPT !.raised = "UnboundLocalError"]
            ELSE [st1 EXCEPT !.metric_clusters[cluster] =
                      [has |-> TRUE, score |-> cell.score, support |-> st1.embeddings.rows]]

RECURSIVE EvalClusters(_, _, _)
EvalClusters(st, i, cells) ==
    IF i > NumClusters \/ st.raised # "no" THEN st
    ELSE EvalClusters(EvalCluster(st, clusters[i], cells[clusters[i]]), i + 1, cells)

\* sum(map_stat * d_points for map_stat, d_points in metric_clusters.values())
RECURSIVE SumScoreTimesSupport(_, _)
SumScoreTimesSupport(mc, i) ==
    IF i > NumClusters THEN 0
    ELSE (IF mc[i].has THEN mc[i].score * mc[i].support ELSE 0) + SumScoreTimesSupport(mc, i + 1)

\* sum(d_points for _, d_points in metric_clusters.values())
RECURSIVE SumSupport(_, _)
SumSupport(mc, i) ==
    IF i > NumClusters THEN 0
    ELSE (IF mc[i].has THEN mc[i].support ELSE 0) + SumSupport(mc, i + 1)

\* One split: the loop over the clusters, then the weighted metric.
EvalSplit(st, metric, split_type, cells) ==
    LET st1 == EvalClusters(st, 1, cells)
        num == SumScoreTimesSupport(st1.metric_clusters, 1)
        den == SumSupport(st1.metric_clusters, 1)
    IN IF st1.raised # "no" THEN st1
       ELSE IF den = 0 THEN [st1 EXCEPT !.raised = "ZeroDivisionError"]
       ELSE [st1 EXCEPT !.results = Append(@, [metric |-> metric, split_type |-> split_type,
                                               num |-> num, den |-> den])]

RECURSIVE EvalSplits(_, _, _, _, _)
EvalSplits(st, metric, split_types, k, data) ==
    IF k > Len(split_types) \/ st.raised # "no" THEN st
    ELSE EvalSplits(EvalSplit(st, metric, split_types[k], data[split_types[k]]),
                    metric, split_types, k + 1, data)

\* The loop over the metrics: metric_clusters starts empty for each metric.
RECURSIVE EvalMetrics(_, _, _, _, _)
EvalMetrics(st, metrics, m, split_types, data) ==
    IF m > Len(metrics) \/ st.raised # "no" THEN st
    ELSE EvalMetrics(EvalSplits([st EXCEPT !.metric_clusters = EmptyMetricClusters],
                                metrics[m], split_types, 1, data),
                     metrics, m + 1, split_types, data)

EvalWeightedCall(split_types, eval_weighted_metrics, data) ==
    /\ LET st0 == [embeddings |-> Unbound,
                   metric_clusters |-> EmptyMetricClusters,
                   encoder |-> transformer_for_embedding,
                   results |-> <<>>,
                   raised |-> "no"]
           st == EvalMetrics(st0, eval_weighted_metrics, 1, split_types, data)
       IN /\ transformer_for_embedding' = st.encoder
          /\ call' = [op |-> "eval_weighted",
                      split_types |-> split_types,
                      metrics |-> eval_weighted_metrics,
                      data |-> data,
                      results |-> st.results,
                      raised |-> st.raised]
    /\ UNCHANGED <<cluster_classifier, cluster_label_binarizer, cluster_tfidf, disk,
                   tcall, default_dicts, aliased, other>>

\* eval_weighted, for every corpus of the requested splits.
EvalWeighted ==
    /\ call = NoCall
    /\ \E split_types \in SplitTypeLists, eval_weighted_metrics \in MetricLists :
          \E data \in [Range(split_types) -> [ClusterSet -> Cells]] :
             EvalWeightedCall(split_types, eval_weighted_metrics, data)
    /\ UNCHANGED <<mcall, ecall>>

\* ------------------------------------------------------------- Matcher.eval
\* Matcher.predict: the channel the flair classifier is told to write.
MatcherLabelName(return_probabilities) ==
    IF return_probabilities THEN "matcher_proba" ELSE "matcher"

\* The predict calls of the loop over eval_metrics, one per metric.
MatcherEvalPredicts(eval_metrics) ==
    [k \in DOMAIN eval_metrics |-> MatcherLabelName(eval_metrics[k] = "map")]

MatcherEvalCall(n, eval_metrics) ==
    mcall' = [op |-> "eval",
              n |-> n,
              eval_metrics |-> eval_metrics,
              predicts |-> IF n = 0 THEN <<>> ELSE MatcherEvalPredicts(eval_metrics)]

\* eval on a list of n sentences (a Matcher that holds a classifier).
MatcherEval ==
    /\ mcall = NoCall
    /\ \E n \in 0..MaxTexts, eval_metrics \in MetricLists : MatcherEvalCall(n, eval_metrics)
    /\ UNCHANGED <<rankerVars, ecall>>

\* --------------------------- Matcher.create_corpus_of_incorrectly_predicted
\* The value of the label the matcher gives a text it assigns to no cluster.
UnknownCluster == 0

\* mappings[label]: the cluster of a fine-grained label
Mappings(label) == label[2]

\* A dev sentence as read_corpus returns it: gold labels only (the corpus files
\* carry the "gold" channel, the one _get_labels_matrix reads).
CorpusSentence(gold) == [gold |-> gold, matcher |-> {}, matcher_proba |-> {}, predicted |-> {}]

\* Matcher.predict: the flair classifier writes its labels to the channel
\* "matcher_proba" or "matcher"; assigned[i] are the clusters it gives sentence i.
MatcherPredict(sentences, return_probabilities, assigned) ==
    [i \in DOMAIN sentences |->
        [sentences[i] EXCEPT ![MatcherLabelName(return_probabilities)] = assigned[i]]]

\* The clusters of the inner loop that get the sentence appended: the labels of
\* the channel "predicted" that are not "unk" and not a cluster of a gold label.
IncorrectClusters(sentence) ==
    {cluster_predicted \in sentence.predicted :
        /\ cluster_predicted # UnknownCluster
        /\ cluster_predicted \notin {Mappings(ll) : ll \in sentence.gold}}

\* sentences_incorrect[cluster] after the loop over the first n sentences
RECURSIVE SentencesIncorrect(_, _, _)
SentencesIncorrect(sentences, cluster, n) ==
    IF n = 0 THEN <<>>
    ELSE LET rest == SentencesIncorrect(sentences, cluster, n - 1)
         IN IF cluster \in IncorrectClusters(sentences[n]) THEN Append(rest, n) ELSE rest

\* write_fasttext_file: one line per text with the label "incorrect-matcher"
FastTextFile(texts) == [k \in DOMAIN texts |-> [text |-> texts[k], labels |-> <<"incorrect-matcher">>]]

CreateCorpusCall(gold, assigned) ==
    LET sentences == MatcherPredict([i \in DOMAIN gold |-> CorpusSentence(gold[i])], FALSE, assigned)
        keys == {c \in ClusterSet : SentencesIncorrect(sentences, c, Len(sentences)) # <<>>}
    IN mcall' = [op |-> "create_corpus",
                 sentences |-> sentences,
                 files |-> [c \in keys |-> FastTextFile(SentencesIncorrect(sentences, c, Len(sentences)))]]

\* create_corpus_of_incorrectly_predicted, for every dev split and every hard
\* decision of the matcher on it.
CreateCorpusOfIncorrectlyPredicted ==
    /\ mcall = NoCall
    /\ \E n \in 0..MaxDevTexts :
          \E gold \in [1..n -> SUBSET {<<"label", c>> : c \in ClusterSet}],
             assigned \in [1..n -> SUBSET (ClusterSet \cup {UnknownCluster})] :
                CreateCorpusCall(gold, assigned)
    /\ UNCHANGED <<rankerVars, ecall>>

\* ------------------------------------------------------------ evaluation.py
Transformers == {"bert", "roberta"}

Seeds == {1, 2}

\* The lists of at most MaxPairs elements of a set.
ListsOf(S) == UNION {[1..k -> S] : k \in 0..MaxPairs}

\* What calculate_mean_average_precision can return (tenths).
MapScores == {7, 8, 9}

\* What calculate_summary can return: (f1, precision, recall), in tenths.
SummaryScores == {<<8, 9, 7>>, <<6, 6, 6>>}

Min(a, b) == IF a < b THEN a ELSE b

\* zip(transformers, seeds): as many pairs as the shorter list has.
Zip(transformers, seeds) ==
    [k \in 1..Min(Len(transformers), Len(seeds)) |-> <<transformers[k], seeds[k]>>]

\* The models of a call differ in transformer or seed.
DistinctPairs(transformers, seeds) ==
    \A j, k \in DOMAIN Zip(transformers, seeds) :
        j # k => Zip(transformers, seeds)[j] # Zip(transformers, seeds)[k]

\* The lists pass even when their lengths differ.
LengthsNotAsserted(transformers, seeds) == TRUE

\* assert len(transformers) == len(seeds)
LengthsAsserted(transformers, seeds) == Len(transformers) = Len(seeds)

RECURSIVE SumSeq(_)
SumSeq(xs) == IF xs = <<>> THEN 0 ELSE Head(xs) + SumSeq(Tail(xs))

RECURSIVE SumSquares(_)
SumSquares(xs) == IF xs = <<>> THEN 0 ELSE Head(xs) * Head(xs) + SumSquares(Tail(xs))

\* sum((n*x - sum(xs))^2 for x in xs): n^2 times the squared deviations from the mean
RECURSIVE SumSquaredDeviations(_, _, _)
SumSquaredDeviations(xs, n, total) ==
    IF xs = <<>> THEN 0
    ELSE (n * Head(xs) - total) * (n * Head(xs) - total) + SumSquaredDeviations(Tail(xs), n, total)

\* statistics.mean(xs) as <<numerator, denominator>>
Mean(xs) == <<SumSeq(xs), Len(xs)>>

\* The variance with the population denominator N.
PopulationVariance(xs) ==
    <<SumSquaredDeviations(xs, Len(xs), SumSeq(xs)), Len(xs) * Len(xs) * Len(xs)>>

\* statistics.stdev(xs) squared, as <<numerator, denominator>>: the squared
\* deviations from the mean over N - 1.
Variance(xs) ==
    <<SumSquaredDeviations(xs, Len(xs), SumSeq(xs)), Len(xs) * Len(xs) * (Len(xs) - 1)>>

\* One logger.info line of eval_mean: mean raises on no score, stdev on fewer
\* than two; a line is reported only if both were computed.
ReportLine(st, name, xs) ==
    IF st.raised # "no" THEN st
    ELSE IF Len(xs) < 2 THEN [st EXCEPT !.raised = "StatisticsError"]
    ELSE [st EXCEPT !.reported = Append(@, [name |-> name, scores |-> xs,
                                            mean |-> Mean(xs), variance |-> Variance(xs)])]

\* The loop over the metrics for one loaded model.
RECURSIVE MeanMetrics(_, _, _, _, _)
MeanMetrics(st, metrics, m, map_s, summary) ==
    IF m > Len(metrics) THEN st
    ELSE MeanMetrics(
            IF metrics[m] = "map"
            THEN [st EXCEPT !.predicts = Append(@, "label_predicted_proba"),
                            !.maps = Append(@, map_s)]
            ELSE [st EXCEPT !.predicts = Append(@, "label_predicted"),
                            !.f1_scores = Append(@, summary[1]),
                            !.precisions = Append(@, summary[2]),
                            !.recalls = Append(@, summary[3])],
            metrics, m + 1, map_s, summary)

\* The loop over zip(transformers, seeds): one DACModel.load per pair.
RECURSIVE MeanPairs(_, _, _, _, _, _)
MeanPairs(st, pairs, k, metrics, map_scores, summaries) ==
    IF k > Len(pairs) THEN st
    ELSE MeanPairs(MeanMetrics([st EXCEPT !.loads = @ + 1], metrics, 1, map_scores[k], summaries[k]),
                   pairs, k + 1, metrics, map_scores, summaries)

EvalMeanResult(transformers, seeds, metrics, map_scores, summaries) ==
    LET st0 == [op |-> "eval_mean", transformers |-> transformers, seeds |-> seeds,
                metrics |-> metrics, corpus_reads |-> 0, loads |-> 0, predicts |-> <<>>,
                maps |-> <<>>, f1_scores |-> <<>>, precisions |-> <<>>, recalls |-> <<>>,
                reported |-> <<>>, raised |-> "no"]
    IN IF ~LengthsAsserted(transformers, seeds)
       THEN [st0 EXCEPT !.raised = "AssertionError"]
       ELSE LET st1 == MeanPairs([st0 EXCEPT !.corpus_reads = 1], Zip(transformers, seeds), 1,
                                 metrics, map_scores, summaries)
                l1 == ReportLine(st1, "MAPS", st1.maps)
                l2 == ReportLine(l1, "F1s", st1.f1_scores)
                l3 == ReportLine(l2, "Precision", st1.precisions)
            IN ReportLine(l3, "Recall", st1.recalls)

\* The scores a metric asks of the model of pair k: none if the metric is not requested.
ScoresAsked(n, metrics, metric, values, none) ==
    [1..n -> IF metric \in Range(metrics) THEN values ELSE {none}]

\* eval_mean, for all lists of transformers and seeds and all scores of the models.
EvalMean ==
    /\ ecall = NoCall
    /\ \E transformers \in ListsOf(Transformers), seeds \in ListsOf(Seeds), metrics \in MetricLists :
          /\ DistinctPairs(transformers, seeds)
          /\ LET n == IF LengthsAsserted(transformers, seeds) THEN Len(seeds) ELSE 0
             IN \E map_scores \in ScoresAsked(n, metrics, "map", MapScores, 0),
                   summaries \in ScoresAsked(n, metrics, "summary", SummaryScores, <<0, 0, 0>>) :
                   ecall' = EvalMeanResult(transformers, seeds, metrics, map_scores, summaries)
    /\ UNCHANGED <<rankerVars, mcall>>

\* ------------------------------------------------------------ eval_ensemble
\* DACModel.name, the channel a model's predict is told to write: the
\* transformer and the seed of the model.
DacName(transformer, seed) == <<transformer, seed>>

\* name = f"{transformer}-{seed}": the channel the combination reads
ChannelName(transformer, seed) == <<transformer, seed>>

\* What one model gives the sentence: (label, score) pairs, as probabilities
\* (tenths) or as hard labels of score 1.0.
ProbaOutputs == {{}, {<<"a", 6>>}, {<<"a", 4>>, <<"b", 6>>}}

HardOutputs == {{<<"a", 10>>}, {<<"a", 10>>, <<"b", 10>>}}

\* A test sentence as read_corpus returns it: no predicted label yet.
TestSentence ==
    [channels |-> [name \in Transformers \X Seeds |-> {}],
     label_predicted_proba |-> {},
     label_predicted |-> {}]

\* DACModel.predict(sentences, label_name=dac.name, ...): the model's labels
\* go to the channel label_name.
DacPredict(sentence, label_name, output) ==
    [sentence EXCEPT !.channels[label_name] = output]

\* The loop over the pairs: load the model, predict under its name.
RECURSIVE EnsemblePredicts(_, _, _, _)
EnsemblePredicts(sentence, pairs, k, outputs) ==
    IF k > Len(pairs) THEN sentence
    ELSE EnsemblePredicts(DacPredict(sentence, DacName(pairs[k][1], pairs[k][2]), outputs[k]),
                          pairs, k + 1, outputs)

\* labels[label] after the loop over the pairs from k on: the scores of the
\* label in the channels of the pairs, in the order of the pairs
RECURSIVE LabelScores(_, _, _, _)
LabelScores(sentence, pairs, k, label) ==
    IF k > Len(pairs) THEN <<>>
    ELSE LET found == {e \in sentence.channels[ChannelName(pairs[k][1], pairs[k][2])] : e[1] = label}
         IN (IF found = {} THEN <<>> ELSE <<(CHOOSE e \in found : TRUE)[2]>>)
               \o LabelScores(sentence, pairs, k + 1, label)

RECURSIVE MaxSeq(_)
MaxSeq(xs) ==
    IF Len(xs) = 1 THEN Head(xs)
    ELSE IF Head(xs) >= MaxSeq(Tail(xs)) THEN Head(xs) ELSE MaxSeq(Tail(xs))

\* An ensemble that sums whatever ensemble_type says.
EnsembleScoreAlwaysSum(scores, ensemble_type) == SumSeq(scores)

\* score = max(scores) if ensemble_type == "max" else sum(scores)
EnsembleScore(scores, ensemble_type) ==
    IF ensemble_type = "max" THEN MaxSeq(scores) ELSE SumSeq(scores)

\* The labels the combination adds to the channel label_name of the sentence.
CombinedLabels(sentence, pairs, metric, ensemble_type) ==
    LET keys == {label \in {"a", "b"} : LabelScores(sentence, pairs, 1, label) # <<>>}
    IN {<<label, IF metric = "map"
                 THEN EnsembleScore(LabelScores(sentence, pairs, 1, label), ensemble_type)
                 ELSE 10>> : label \in keys}

\* One iteration of the loop over the metrics: a fresh read of the corpus,
\* the predictions of every model, the combination.
EnsembleMetric(st, metric, pairs, ensemble_type, outputs) ==
    LET label_name == IF metric = "map" THEN "label_predicted_proba" ELSE "label_predicted"
        predicted == EnsemblePredicts(TestSentence, pairs, 1, outputs)
        combined == [predicted EXCEPT ![label_name] =
                        @ \cup CombinedLabels(predicted, pairs, metric, ensemble_type)]
    IN [st EXCEPT !.corpus_reads = @ + 1,
                  !.loads = @ + Len(pairs),
                  !.passes = Append(@, [metric |-> metric, label_name |-> label_name,
                                        outputs |-> outputs, sentence |-> combined])]

RECURSIVE EnsembleMetrics(_, _, _, _, _, _)
EnsembleMetrics(st, metrics, m, pairs, ensemble_type, outputs) ==
    IF m > Len(metrics) THEN st
    ELSE EnsembleMetrics(EnsembleMetric(st, metrics[m], pairs, ensemble_type, outputs[m]),
                         metrics, m + 1, pairs, ensemble_type, outputs)

EvalEnsembleResult(transformers, seeds, ensemble_type, metrics, outputs) ==
    LET st0 == [op |-> "eval_ensemble", transformers |-> transformers, seeds |-> seeds,
                ensemble_type |-> ensemble_type, metrics |-> metrics,
                corpus_reads |-> 0, loads |-> 0, passes |-> <<>>, raised |-> "no"]
    IN IF ~LengthsAsserted(transformers, seeds)
       THEN [st0 EXCEPT !.raised = "AssertionError"]
       ELSE EnsembleMetrics(st0, metrics, 1, Zip(transformers, seeds), ensemble_type, outputs)

\* The outputs of n models in the pass of one metric.
OutputsOfPass(metric, n) == [1..n -> IF metric = "map" THEN ProbaOutputs ELSE HardOutputs]

\* The outputs of n models in the passes of a list of one or two metrics.
OutputsOfModels(metrics, n) ==
    IF Len(metrics) = 1
    THEN {<<o>> : o \in OutputsOfPass(metrics[1], n)}
    ELSE {<<o1, o2>> : o1 \in OutputsOfPass(metrics[1], n), o2 \in OutputsOfPass(metrics[2], n)}

\* eval_ensemble, for all lists of transformers and seeds, both ensemble types
\* and all outputs of the models.
EvalEnsemble ==
    /\ ecall = NoCall
    /\ \E transformers \in ListsOf(Transformers), seeds \in ListsOf(Seeds),
          metrics \in MetricLists, ensemble_type \in {"max", "sum"} :
          /\ DistinctPairs(transformers, seeds)
          /\ LET n == IF LengthsAsserted(transformers, seeds) THEN Len(seeds) ELSE 0
             IN \E outputs \in OutputsOfModels(metrics, n) :
                   ecall' = EvalEnsembleResult(transformers, seeds, ensemble_type, metrics, outputs)
    /\ UNCHANGED <<rankerVars, mcall>>

\* --------------------------------------------------------------------- init
Init ==
    /\ cluster_classifier = [c \in ClusterSet |-> Unset]
    /\ cluster_label_binarizer = [c \in ClusterSet |-> Unset]
    /\ cluster_tfidf = [c \in ClusterSet |-> Unset]
    /\ transformer_for_embedding = FALSE
    /\ disk = [saved |-> FALSE]
    /\ call = NoCall
    /\ tcall = NoCall
    /\ default_dicts = DictsOf("passed")
    /\ aliased = TRUE
    /\ other = "none"
    /\ mcall = NoCall
    /\ ecall = NoCall

\* A run makes one Ranker call on the trained or loaded model.
NextPredict == Train \/ Load \/ Predict

SpecPredict == Init /\ [][NextPredict]_vars

\* The evaluation of the two components over the splits of a corpus.
NextEval == Train \/ Load \/ EvalWeighted \/ MatcherEval

SpecEval == Init /\ [][NextEval]_vars

\* The training of a Ranker beside a second Ranker of the same process.
NextTrain == Train \/ Load \/ NewRanker

SpecTrain == Init /\ [][NextTrain]_vars

\* The calls of a Matcher.
NextMatcher == MatcherEval \/ CreateCorpusOfIncorrectlyPredicted

SpecMatcher == Init /\ [][NextMatcher]_vars

\* The calls of evaluation.py.
NextEvaluation == EvalMean \/ EvalEnsemble

SpecEvaluation == Init /\ [][NextEvaluation]_vars

\* ================================================================ claims
\* The label entries a sentence got from one cluster in one channel.
EntriesOf(sentence, channel, cluster) ==
    {k \in DOMAIN sentence[channel] : sentence[channel][k].cluster = cluster}

\* A cluster that went through train or load and has no classifier.
IsNullCluster(c) ==
    cluster_label_binarizer[c] = "fit" /\ cluster_classifier[c] = "None"

IsTrainedCluster(c) ==
    cluster_label_binarizer[c] = "fit" /\ cluster_classifier[c] \in {"sparse", "dense"}

\* C2: Ranker.predict does not raise on a cluster whose classifier is null; in
\* both modes every label such a cluster gives a sentence has confidence 0.0,
\* and the loop goes on to every other cluster.
C2_NullClusterPredict ==
    (call.op = "predict" /\ \E c \in ClusterSet : IsNullCluster(c)) =>
        /\ call.raised = "no"
        /\ call.processed = clusters
        /\ \A c \in ClusterSet : IsNullCluster(c) =>
              \A i \in DOMAIN call.sentences : \A ch \in {"ranker", "ranker_proba"} :
                 \A k \in EntriesOf(call.sentences[i], ch, c) :
                    call.sentences[i][ch][k].score = 0
        /\ \A c \in ClusterSet : (IsTrainedCluster(c) /\ call.return_probabilities) =>
              \A i \in DOMAIN call.sentences :
                 Cardinality(EntriesOf(call.sentences[i], "ranker_proba", c)) = Len(Classes(c))

\* C2 witness: a hard-label predict over a null cluster followed by a trained
\* one that labelled a sentence.
C2_Witness ==
    /\ call.op = "predict"
    /\ ~call.return_probabilities
    /\ call.raised = "no"
    /\ \E c, d \in ClusterSet :
          /\ c < d
          /\ IsNullCluster(c)
          /\ IsTrainedCluster(d)
          /\ EntriesOf(call.sentences[1], "ranker_proba", c) # {}
          /\ EntriesOf(call.sentences[1], "ranker", d) # {}

\* C3: for every cluster with a trained classifier, the features predict
\* computes have the composition the classifier was fit on (sparse only, or
\* sparse with the encoder's dense embeddings).
C3_SameFeaturesAsTraining ==
    call.op = "predict" =>
        \A c \in ClusterSet : (IsTrainedCluster(c) /\ call.features[c] # "none") =>
            call.features[c] = cluster_classifier[c]

\* C9: within one predict every label goes to one channel, "ranker_proba" with
\* return_probabilities and "ranker" without; a hard-label predict adds only
\* labels of confidence 1.0 and leaves "ranker_proba" as it was.
C9_SingleChannel ==
    call.op = "predict" =>
        \A i \in DOMAIN call.sentences :
            IF call.return_probabilities
            THEN call.sentences[i].ranker = call.before[i].ranker
            ELSE /\ call.sentences[i].ranker_proba = call.before[i].ranker_proba
                 /\ \A k \in DOMAIN call.sentences[i].ranker :
                       k > Len(call.before[i].ranker) => call.sentences[i].ranker[k].score = 10

\* The evaluation sentences of a split over all clusters, and the sum of
\* score times number of sentences.
RECURSIVE TotalSentences(_, _)
TotalSentences(cells, i) ==
    IF i > NumClusters THEN 0 ELSE cells[i].n + TotalSentences(cells, i + 1)

RECURSIVE TotalScoreTimesSentences(_, _)
TotalScoreTimesSentences(cells, i) ==
    IF i > NumClusters THEN 0
    ELSE cells[i].score * cells[i].n + TotalScoreTimesSentences(cells, i + 1)

AllBinarizersFit == \A c \in ClusterSet : cluster_label_binarizer[c] = "fit"

\* C1: for one split and every metric, the weighted score of eval_weighted is
\* sum(score_c * n_c) / sum(n_c) over the clusters with n_c > 0 evaluation
\* sentences, null-classifier clusters included, whatever the cluster order.
C1_WeightedScore ==
    (/\ call.op = "eval_weighted"
     /\ Len(call.split_types) = 1
     /\ AllBinarizersFit
     /\ TotalSentences(call.data[call.split_types[1]], 1) > 0) =>
        /\ call.raised = "no"
        /\ Len(call.results) = Len(call.metrics)
        /\ \A k \in DOMAIN call.results :
              call.results[k].num * TotalSentences(call.data[call.split_types[1]], 1)
                 = call.results[k].den * TotalScoreTimesSentences(call.data[call.split_types[1]], 1)

\* C7: a split without sentences is skipped without failing: Matcher.eval on
\* an empty list returns without a predict, and eval_weighted over splits in
\* which no cluster has an evaluation sentence completes without raising.
C7_EmptySplitSkipped ==
    /\ (mcall.op = "eval" /\ mcall.n = 0) => mcall.predicts = <<>>
    /\ (/\ call.op = "eval_weighted"
        /\ AllBinarizersFit
        /\ \A sp \in Range(call.split_types) : TotalSentences(call.data[sp], 1) = 0) =>
           call.raised = "no"

\* C6: after create_corpus_of_incorrectly_predicted every dev text is in the
\* emitted set, labelled "incorrect-matcher", of each cluster the matcher's
\* hard-label predict assigned to it that is neither unknown nor a cluster of
\* its gold labels, and in no other emitted set.
C6_IncorrectlyPredictedEmitted ==
    mcall.op = "create_corpus" =>
        \A i \in DOMAIN mcall.sentences : \A c \in ClusterSet :
            LET wrong == /\ c \in mcall.sentences[i].matcher
                         /\ c # UnknownCluster
                         /\ c \notin {Mappings(ll) : ll \in mcall.sentences[i].gold}
                emitted == /\ c \in DOMAIN mcall.files
                           /\ \E k \in DOMAIN mcall.files[c] :
                                 mcall.files[c][k] = [text |-> i, labels |-> <<"incorrect-matcher">>]
            IN wrong <=> emitted

\* The sum of the scores the models from k on gave a label.
RECURSIVE SumOfModelScores(_, _, _)
SumOfModelScores(outputs, label, k) ==
    IF k > Len(outputs) THEN 0
    ELSE (IF \E e \in outputs[k] : e[1] = label
          THEN (CHOOSE e \in outputs[k] : e[1] = label)[2]
          ELSE 0) + SumOfModelScores(outputs, label, k + 1)

\* C4: in a MAP pass of eval_ensemble each model's scores are in the channel
\* named by its transformer and seed, and every label some model scored gets
\* one combined score: the maximum of the models' scores with "max", their
\* sum with "sum"; a label no model scored gets none.
C4_EnsembleScore ==
    (ecall.op = "eval_ensemble" /\ ecall.raised = "no") =>
        \A p \in DOMAIN ecall.passes :
            LET pass == ecall.passes[p]
                ScoresGiven(label) == {e[2] : e \in {x \in UNION Range(pass.outputs) : x[1] = label}}
                Combined(label) == {e \in pass.sentence.label_predicted_proba : e[1] = label}
            IN pass.metric = "map" =>
                /\ \A k \in DOMAIN pass.outputs :
                      pass.sentence.channels[<<ecall.transformers[k], ecall.seeds[k]>>] = pass.outputs[k]
                /\ \A label \in {"a", "b"} :
                      IF ScoresGiven(label) = {} THEN Combined(label) = {}
                      ELSE \E v \in 0..(10 * Len(pass.outputs)) :
                              /\ Combined(label) = {<<label, v>>}
                              /\ IF ecall.ensemble_type = "max"
                                 THEN v \in ScoresGiven(label) /\ \A w \in ScoresGiven(label) : w <= v
                                 ELSE v = SumOfModelScores(pass.outputs, label, 1)

\* C4 witness: two models score label "a" 0.6 and 0.4 and the "sum" ensemble
\* writes 1.0 for it.
C4_Witness ==
    /\ ecall.op = "eval_ensemble"
    /\ ecall.raised = "no"
    /\ ecall.ensemble_type = "sum"
    /\ ecall.metrics = <<"map">>
    /\ ecall.passes[1].outputs = << {<<"a", 6>>}, {<<"a", 4>>, <<"b", 6>>} >>
    /\ ecall.passes[1].sentence.label_predicted_proba = {<<"a", 10>>, <<"b", 6>>}

\* C5: eval_mean and eval_ensemble called with lists of different lengths
\* fail before the corpus is read and before any model is loaded.
C5_MismatchFailsFast ==
    (ecall.op \in {"eval_mean", "eval_ensemble"} /\ Len(ecall.transformers) # Len(ecall.seeds)) =>
        /\ ecall.raised = "AssertionError"
        /\ ecall.corpus_reads = 0
        /\ ecall.loads = 0

\* C5 witness: eval_ensemble with one transformer and two seeds.
C5_Witness ==
    /\ ecall.op = "eval_ensemble"
    /\ Len(ecall.transformers) = 1
    /\ Len(ecall.seeds) = 2
    /\ ecall.raised = "AssertionError"

\* The scores eval_mean collected under the name of a log line.
CollectedScores(name) ==
    IF name = "MAPS" THEN ecall.maps
    ELSE IF name = "F1s" THEN ecall.f1_scores
    ELSE IF name = "Precision" THEN ecall.precisions
    ELSE ecall.recalls

\* C8: every line eval_mean reports gives the mean and the sample (N - 1)
\* standard deviation of the scores collected, one per pair ([0.8, 0.9, 0.7]
\* gives mean 0.8 and stdev 0.1); with fewer than two pairs the call fails
\* and reports nothing.
C8_MeanAndSampleStdev ==
    ecall.op = "eval_mean" =>
        /\ \A r \in DOMAIN ecall.reported :
              LET line == ecall.reported[r]
                  xs == line.scores
                  n == Len(xs)
              IN /\ xs = CollectedScores(line.name)
                 /\ n = Len(ecall.seeds)
                 /\ line.mean[2] > 0 /\ line.variance[2] > 0
                 /\ line.mean[1] * n = SumSeq(xs) * line.mean[2]
                 /\ line.variance[1] * (n * (n - 1))
                       = (n * SumSquares(xs) - SumSeq(xs) * SumSeq(xs)) * line.variance[2]
                 /\ xs = <<8, 9, 7>> =>
                       /\ line.mean[1] = 8 * line.mean[2]
                       /\ line.variance[1] = 1 * 1 * line.variance[2]
        /\ (Len(ecall.transformers) < 2 \/ Len(ecall.seeds) < 2) =>
              ecall.raised # "no" /\ ecall.reported = <<>>

\* C8 witness: the scores [0.8, 0.9, 0.7] were collected and their line reported.
C8_Witness ==
    /\ ecall.op = "eval_mean"
    /\ ecall.maps = <<8, 9, 7>>
    /\ \E r \in DOMAIN ecall.reported : ecall.reported[r].name = "MAPS"

\* C10: eval_mean with N >= 2 pairs and any non-empty list of metrics collects
\* N scores per requested metric and completes, reporting mean and standard
\* deviation of the requested metrics, without raising.
C10_EvalMeanCompletes ==
    (/\ ecall.op = "eval_mean"
     /\ Len(ecall.transformers) = Len(ecall.seeds)
     /\ Len(ecall.seeds) >= 2) =>
        /\ "map" \in Range(ecall.metrics) => Len(ecall.maps) = Len(ecall.seeds)
        /\ "summary" \in Range(ecall.metrics) => Len(ecall.f1_scores) = Len(ecall.seeds)
        /\ ecall.raised = "no"
        /\ "map" \in Range(ecall.metrics) =>
              \E r \in DOMAIN ecall.reported : ecall.reported[r].name = "MAPS"
        /\ "summary" \in Range(ecall.metrics) =>
              \E r \in DOMAIN ecall.reported : ecall.reported[r].name = "F1s"

\* C11: with several split types and every cluster trained, the weighted
\* score of each split is sum(score_c * n_c) / sum(n_c) over the clusters with
\* evaluation sentences in that split only: a cluster without sentences in the
\* split adds nothing, whatever it had in a split processed earlier.
C11_SplitScoreOwnPairs ==
    (call.op = "eval_weighted" /\ \A c \in ClusterSet : IsTrainedCluster(c)) =>
        \A k \in DOMAIN call.results :
            LET cells == call.data[call.results[k].split_type]
            IN call.results[k].num * TotalSentences(cells, 1)
                  = call.results[k].den * TotalScoreTimesSentences(cells, 1)

\* C12: when train is called with a transformer_for_embedding, every cluster
\* that has training texts is fit on the sparse features with the encoder's
\* dense embeddings concatenated, whatever its position in the training order.
C12_DenseForEveryCluster ==
    (tcall.op = "train" /\ tcall.transformer_for_embedding) =>
        \A c \in ClusterSet :
            tcall.fits[c].classifier # {} => tcall.fits[c].features = "dense"

\* C13: in train, every cluster with at least one assembled training text has
\* its vectorizer fit on exactly the texts its classifier is fit on, so such
\* a cluster always has a vectorizer fit on some text.
C13_VectorizerFitOnTrainingTexts ==
    tcall.op = "train" =>
        \A c \in ClusterSet :
            tcall.fits[c].classifier # {} =>
                /\ tcall.fits[c].tfidf = tcall.fits[c].classifier
                /\ tcall.fits[c].tfidf # {}

\* C14: while a second Ranker exists, no step on the first one (train, load)
\* changes the second one's cluster_classifier, cluster_label_binarizer or
\* cluster_tfidf, however the second one was constructed.
C14_IndependentInstances ==
    [][(other # "none" /\ other' = other) => DictsOf(other)' = DictsOf(other)]_vars
====
